---------------------------- MODULE Spec2Model ----------------------------
(***************************************************************************)
(* A model of the query-resolution pipeline of RAG_System/api/app.py:      *)
(* detect_language, get_embedding with its process-wide cache,             *)
(* find_top_location, fetch_location_data, generate_answer and the         *)
(* handle_query orchestrator.                                              *)
(*                                                                         *)
(* Texts are run-length encoded: a text is a sequence of runs [c, n], n    *)
(* characters of class c, adjacent runs of different classes.  The classes *)
(* are "S" (whitespace), "L" (a Latin letter) and "A" (a letter of the     *)
(* Arabic block U+0600..U+06FF).  Slicing, stripping and lengths are       *)
(* computed on the runs, so the 512 and 8192 of the source are kept.       *)
(*                                                                         *)
(* An embedding is a unit vector of the plane at a multiple of 30 degrees, *)
(* or the zero vector; cosine similarities are kept in thousandths.        *)
(***************************************************************************)
EXTENDS Integers, Sequences, FiniteSets, TLC

VARIABLES
    store,        \* the relational store: regions, governorates, alert links
    EMBED_CACHE,  \* app.py:75, cache key -> embedding
    CONN_POOL,    \* app.py:49, "None" until the first get_db_connection
    pc,           \* position of the request inside handle_query
    payload,      \* the QueryRequest being handled
    query,        \* payload.query.strip()
    lang,         \* result of detect_language
    query_emb,    \* result of get_embedding
    locations,    \* result of find_top_location
    data,         \* result of fetch_location_data
    response,     \* what handle_query returned or raised
    calls,        \* the stages that ran for this request, in order
    fetchArgs,    \* the (type, id) pairs passed to fetch_location_data
    faults,       \* the external calls that failed during this request
    epc,          \* per caller: position inside get_embedding
    etext,        \* per caller: the text passed to get_embedding
    eresult,      \* per caller: the vector get_embedding returned
    einfo,        \* per caller: how the call went (cache hit, service called)
    embHist,      \* per 512-character prefix: the first return and first store
    used,         \* connections checked out of CONN_POOL and not put back
    holders,      \* per operation: the calls that hold a connection now
    outcome,      \* how the last call of a store operation ended
    det,          \* a direct call of detect_language: its input and result
    fetched,      \* a direct call of fetch_location_data: input and result
    made,         \* the connection pools created so far, numbered from 1
    poolNow,      \* the pool the module variable CONN_POOL names; 0 is None
    tpc,          \* per thread: position inside a call that uses the pool
    tconn,        \* per thread: the pool its connection was taken from
    tend,         \* per thread: how its call ended
    loader,       \* the loader process: position, locals, database, log
    chat          \* the chat UI session: history, script position, rerun

vars == <<store, EMBED_CACHE, CONN_POOL, pc, payload, query, lang, query_emb,
          locations, data, response, calls, fetchArgs, faults,
          epc, etext, eresult, einfo, embHist, used, holders, outcome, det,
          fetched, made, poolNow, tpc, tconn, tend, loader, chat>>

reqVars == <<pc, payload, query, lang, query_emb, locations, data, response,
             calls, fetchArgs, faults>>

embVars == <<epc, etext, eresult, einfo, embHist>>

poolVars == <<used, holders, outcome>>

fetchVars == <<fetched>>

lazyVars == <<made, poolNow, tpc, tconn, tend>>

loaderVars == <<loader>>

chatVars == <<chat>>

---------------------------------------------------------------------------
(* Bounds of the model *)

\* number of concurrent callers of get_embedding
NumCallers == 2

\* the largest k a request carries (the smallest is -1)
MaxK == 2

\* rows of the governorates table
MaxGovs == 2

\* threads that make their first use of the connection pool together
NumThreads == 3

\* features of the file the loader downloads
MaxFeatures == 2

\* messages of a chat session
MaxMessages == 4

---------------------------------------------------------------------------
(* Texts *)

Run(c, n) == [c |-> c, n |-> n]

RECURSIVE TextLen(_)
TextLen(t) == IF t = <<>> THEN 0 ELSE Head(t).n + TextLen(Tail(t))

RECURSIVE CountClass(_, _)
CountClass(t, c) ==
    IF t = <<>> THEN 0
    ELSE (IF Head(t).c = c THEN Head(t).n ELSE 0) + CountClass(Tail(t), c)

\* text[:n]
RECURSIVE Take(_, _)
Take(t, n) ==
    IF t = <<>> \/ n <= 0 THEN <<>>
    ELSE IF Head(t).n <= n
         THEN <<Head(t)>> \o Take(Tail(t), n - Head(t).n)
         ELSE <<Run(Head(t).c, n)>>

RECURSIVE LStrip(_)
LStrip(t) ==
    IF t = <<>> THEN <<>>
    ELSE IF Head(t).c = "S" THEN LStrip(Tail(t)) ELSE t

RECURSIVE RStrip(_)
RStrip(t) ==
    IF t = <<>> THEN <<>>
    ELSE IF t[Len(t)].c = "S" THEN RStrip(SubSeq(t, 1, Len(t) - 1)) ELSE t

\* str.strip()
Strip(t) == RStrip(LStrip(t))

\* re.sub(r'\s+', ' ', t): every whitespace run becomes one space
CollapseSpaces(t) ==
    [i \in 1..Len(t) |-> IF t[i].c = "S" THEN Run("S", 1) ELSE t[i]]

\* The texts callers pass to get_embedding.  Several share their first 512
\* characters and differ beyond them; two differ only beyond character 8192.
Texts ==
    { <<>>,
      <<Run("S", 3)>>,
      <<Run("L", 5)>>,
      <<Run("L", 512)>>,
      <<Run("L", 513)>>,
      <<Run("L", 512), Run("A", 1)>>,
      <<Run("S", 512)>>,
      <<Run("S", 512), Run("L", 5)>>,
      <<Run("L", 8192), Run("A", 1)>>,
      <<Run("L", 8192), Run("A", 2)>> }

\* a sequence of runs as a text: empty runs dropped, adjacent runs of one
\* class merged
RECURSIVE Compact(_)
Compact(t) ==
    IF t = <<>> THEN <<>>
    ELSE IF Head(t).n = 0 THEN Compact(Tail(t))
    ELSE LET rest == Compact(Tail(t))
         IN  IF rest # <<>> /\ Head(rest).c = Head(t).c
             THEN <<Run(Head(t).c, Head(t).n + Head(rest).n)>> \o Tail(rest)
             ELSE <<Head(t)>> \o rest

\* The texts passed to detect_language directly: leading and trailing
\* whitespace, whitespace runs inside, and Arabic shares on both sides of
\* 15%, which some reach only once the whitespace is normalised
DetectTexts ==
    { Compact(<<Run("S", l), Run("A", a), Run("S", m), Run("L", n),
                Run("S", l)>>) :
        l \in {0, 2}, a \in {0, 1, 3}, m \in {0, 1, 15}, n \in {0, 3, 17} }

\* The query strings requests carry
Queries ==
    { <<>>,
      <<Run("S", 3)>>,
      <<Run("S", 1), Run("L", 5)>>,
      <<Run("L", 17), Run("A", 3)>> }

---------------------------------------------------------------------------
(* How a call ends: it returns a value, or an exception leaves it *)

Returns(v) == [raised |-> FALSE, value |-> v]

Raises(v) == [raised |-> TRUE, value |-> v]

---------------------------------------------------------------------------
(* detect_language, app.py:60-72 *)

\* what langdetect.detect can do with a text: report Arabic, report any
\* other language, or raise LangDetectException / UnicodeDecodeError
DetectorOutcomes == {"ar", "other", "raises"}

\* the heuristic with > in place of >=
ArabicHeuristic_Strict(text) ==
    IF 100 * CountClass(text, "A") > 15 * TextLen(text) THEN "ar" ELSE "en"

\* arabic_chars / len(text) >= 0.15, on exact rationals
ArabicHeuristic(text) ==
    IF 100 * CountClass(text, "A") >= 15 * TextLen(text) THEN "ar" ELSE "en"

\* detect_language without its try/except around the detector
detect_language_NoExcept(text, detector) ==
    LET t == CollapseSpaces(Strip(text))
    IN  IF t = <<>> THEN Returns("en")
        ELSE IF detector = "ar" THEN Returns("ar")
        ELSE IF detector = "other" THEN Returns("en")
        ELSE Raises("LangDetectException")

\* the except clause names both exceptions the detector raises
detect_language(text, detector) ==
    LET t == CollapseSpaces(Strip(text))
    IN  IF t = <<>> THEN Returns("en")
        ELSE IF detector = "ar" THEN Returns("ar")
        ELSE IF detector = "other" THEN Returns("en")
        ELSE Returns(ArabicHeuristic(t))

\* no call of detect_language is being looked at
NoDetection ==
    [pc |-> "idle", text |-> <<>>, detector |-> "", raised |-> FALSE,
     result |-> ""]

---------------------------------------------------------------------------
(* Embeddings and get_embedding, app.py:75-92 *)

Vec(d) == [zero |-> FALSE, dir |-> d]

\* [0.0] * 1536
ZeroVector == [zero |-> TRUE, dir |-> 0]

\* client.embeddings.create: a deterministic function of its input text
EmbeddingService(input) ==
    Vec(((TextLen(input) % 11) + 5 * CountClass(input, "A")) % 12)

\* the whole text as the key
CacheKey_FullText(text) == text

\* cache_key = text[:512]
CacheKey(text) == Take(text, 512)

\* text = text[:8192], without the strip
EmbedInput_NoStrip(text) == Take(text, 8192)

\* text = text.strip()[:8192]
EmbedInput(text) == Take(Strip(text), 8192)

\* EMBED_CACHE[cache_key] = embedding
CachePut(cache, key, v) ==
    [k \in DOMAIN cache \cup {key} |-> IF k = key THEN v ELSE cache[k]]

\* One whole call of get_embedding; serviceOk says whether the external
\* call, if one is made, succeeds.  The result is how the call ends (the
\* except clause catches every exception of the service), the cache
\* afterwards, whether the external service was called and whether the
\* vector came from the cache.
get_embedding(cache, text, serviceOk) ==
    LET cache_key == CacheKey(text)
        input == EmbedInput(text)
    IN  IF cache_key \in DOMAIN cache
        THEN [raised |-> FALSE, value |-> cache[cache_key], cache |-> cache,
              called |-> FALSE, hit |-> TRUE]
        ELSE IF input = <<>>
        THEN [raised |-> FALSE, value |-> ZeroVector, cache |-> cache,
              called |-> FALSE, hit |-> FALSE]
        ELSE IF serviceOk
        THEN [raised |-> FALSE, value |-> EmbeddingService(input),
              cache |-> CachePut(cache, cache_key, EmbeddingService(input)),
              called |-> TRUE, hit |-> FALSE]
        ELSE [raised |-> FALSE, value |-> ZeroVector, cache |-> cache,
              called |-> TRUE, hit |-> FALSE]

---------------------------------------------------------------------------
(* Scores.  A score is a number of thousandths, or NaN. *)

Num(m) == [nan |-> FALSE, milli |-> m]

NaN == [nan |-> TRUE, milli |-> 0]

\* cosine of a multiple of 30 degrees, in thousandths
Cos12 ==
    [d \in 0..11 |->
        CASE d = 0 -> 1000
          [] d \in {1, 11} -> 866
          [] d \in {2, 10} -> 500
          [] d \in {3, 9} -> 0
          [] d \in {4, 8} -> -500
          [] d \in {5, 7} -> -866
          [] OTHER -> -1000]

\* 1 - (embedding <=> query_emb): the cosine similarity; pgvector's cosine
\* distance of a zero vector is 0/0 = NaN
Similarity(embedding, q) ==
    IF embedding.zero \/ q.zero THEN NaN
    ELSE Num(Cos12[(embedding.dir - q.dir) % 12])

\* PostgreSQL's float8 >=: NaN compares greater than every number
PgGreaterEq(score, threshold) == score.nan \/ score.milli >= threshold

\* PostgreSQL's ORDER BY ... DESC on float8: a comes no later than b
PgDescOrdered(a, b) == a.nan \/ (~b.nan /\ a.milli >= b.milli)

\* Python's round(x, 2) on a float: NaN stays NaN; otherwise the nearest
\* hundredth (the score values of the model are never halfway)
Round2(score) ==
    IF score.nan THEN NaN
    ELSE LET q == score.milli \div 10
             r == score.milli % 10
         IN  IF r < 5 THEN Num(10 * q)
             ELSE IF r > 5 THEN Num(10 * (q + 1))
             ELSE IF q % 2 = 0 THEN Num(10 * q) ELSE Num(10 * (q + 1))

---------------------------------------------------------------------------
(* The relational store, read-only to the API *)

RegionIds == {1}

GovIds == 1..MaxGovs

AlertIds == {1}

\* the embeddings stored in region_embedding and gov_embedding
RowVecs == {Vec(0), Vec(4)}

PartialFns(D, R) == UNION {[S -> R] : S \in SUBSET D}

\* regions and governorates map the ids of their rows to the row's
\* embedding; every governorate belongs to region 1; links is the
\* alert_governorates table.
Stores ==
    UNION { UNION { { [regions |-> r, govs |-> g, links |-> l,
                       region_of |-> [i \in DOMAIN g |-> 1],
                       hazards |-> {}] :
                        l \in SUBSET (AlertIds \X DOMAIN g) } :
                    g \in PartialFns(GovIds, RowVecs) } :
            r \in PartialFns(RegionIds, RowVecs) }

\* governorates.region_id
RegionOf(st, gov_id) == st.region_of[gov_id]

\* what psycopg2 gives for SQL NULL inside an array: None
Null == 0

NameAr(type, id) == <<"name_ar", type, id>>

NameEn(type, id) == <<"name_en", type, id>>

---------------------------------------------------------------------------
(* get_db_connection, app.py:49-57 *)

\* what the relational store can do to one call: answer, refuse the
\* connection (pool creation or getconn raises), or fail the statement
DbOutcomes == {"ok", "connect_fails", "query_fails"}

\* CONN_POOL after get_db_connection: created on first use unless creating
\* it raised
get_db_connection(pool, db) ==
    IF pool = "None" /\ db = "connect_fails" THEN "None" ELSE "pool"

\* SimpleConnectionPool(1, 20, ...): maxconn
MaxConn == 20

\* CONN_POOL.getconn() with n connections out: SimpleConnectionPool does not
\* wait, it raises PoolError("connection pool exhausted") at maxconn
PoolExhausted(pool, n) == pool # "None" /\ n >= MaxConn

\* the operations that take a connection
StoreOps == {"find_top_location", "fetch_location_data", "health_check"}

NoOutcome == [op |-> "", cause |-> "", result |-> ""]

\* the except clause of the query functions in health_check as well
FailedResult_AlwaysEmpty(op) == "[]"

\* how a call ends when something raised inside it: the two query
\* functions return [], health_check raises HTTPException(500)
FailedResult(op) == IF op = "health_check" THEN "HTTP 500" ELSE "[]"

\* how a call ends when nothing raised
GoodResult(op) == IF op = "health_check" THEN "OK" ELSE "rows"

---------------------------------------------------------------------------
(* find_top_location, app.py:95-141 *)

\* WHERE 1 - (embedding <=> %s) >= %s
PassesThreshold(score, threshold) == PgGreaterEq(score, threshold)

\* the CTE "combined": the rows of both tables that pass the threshold
Combined(st, q, threshold) ==
    { [type |-> "region", id |-> i,
       name_ar |-> NameAr("region", i), name_en |-> NameEn("region", i),
       score |-> Similarity(st.regions[i], q)] :
        i \in {j \in DOMAIN st.regions :
                 PassesThreshold(Similarity(st.regions[j], q), threshold)} }
    \cup
    { [type |-> "governorate", id |-> i,
       name_ar |-> NameAr("governorate", i),
       name_en |-> NameEn("governorate", i),
       score |-> Similarity(st.govs[i], q)] :
        i \in {j \in DOMAIN st.govs :
                 PassesThreshold(Similarity(st.govs[j], q), threshold)} }

\* ORDER BY score DESC names no other sort key: every arrangement of the
\* rows in which the scores descend is a possible output order
OrderByScoreDesc(rows) ==
    { s \in [1..Cardinality(rows) -> rows] :
        /\ \A i, j \in DOMAIN s : i # j => s[i] # s[j]
        /\ \A i, j \in DOMAIN s : i < j => PgDescOrdered(s[i].score, s[j].score) }

\* LIMIT k, for k >= 0
Limit(s, k) == SubSeq(s, 1, IF k < Len(s) THEN k ELSE Len(s))

\* find_top_location without its except clause: a failed statement leaves
\* the call as an exception
find_top_location_NoExcept(st, emb, k, threshold, db) ==
    IF db # "ok" \/ k < 0 THEN {Raises(<<>>)}
    ELSE { Returns(Limit(s, k)) :
             s \in OrderByScoreDesc(Combined(st, emb, threshold)) }

\* The ways one call can end.  PostgreSQL rejects a negative LIMIT, which
\* raises like any failed statement; "except Exception" catches every
\* exception and returns [].
find_top_location(st, emb, k, threshold, db) ==
    IF db # "ok" \/ k < 0 THEN {Returns(<<>>)}
    ELSE { Returns(Limit(s, k)) :
             s \in OrderByScoreDesc(Combined(st, emb, threshold)) }

---------------------------------------------------------------------------
(* fetch_location_data, app.py:144-200 *)

\* the WHERE clause of the governorate statement for both kinds
MatchedGovs_AlwaysByGovId(st, location_type, location_id) ==
    {g \in DOMAIN st.govs : g = location_id}

\* the governorates g of the join that the WHERE clause keeps
MatchedGovs(st, location_type, location_id) ==
    IF location_type = "region"
    THEN {g \in DOMAIN st.govs : RegionOf(st, g) = location_id}
    ELSE {g \in DOMAIN st.govs : g = location_id}

\* one row per alert_id (GROUP BY a.alert_id) that joins a kept governorate;
\* gov_names is ARRAY_AGG(DISTINCT g.name) over the joined rows of the group
AlertRows(st, location_type, location_id) ==
    { [alert_id |-> a,
       gov_names |-> {g \in MatchedGovs(st, location_type, location_id) :
                        <<a, g>> \in st.links},
       hazards |-> IF \E l \in st.hazards : l[1] = a
                   THEN {l[2] : l \in {m \in st.hazards : m[1] = a}}
                   ELSE {Null}] :
        a \in {b \in {l[1] : l \in st.links} :
                 \E g \in MatchedGovs(st, location_type, location_id) :
                    <<b, g>> \in st.links} }

\* ORDER BY a.from_date DESC; alert ids are issued in date order
RECURSIVE NewestFirst(_)
NewestFirst(rows) ==
    IF rows = {} THEN <<>>
    ELSE LET top == CHOOSE r \in rows : \A o \in rows : o.alert_id <= r.alert_id
         IN  <<top>> \o NewestFirst(rows \ {top})

\* fetch_location_data without its except clause
fetch_location_data_NoExcept(st, location_type, location_id, db) ==
    IF db # "ok" THEN Raises(<<>>)
    ELSE Returns(NewestFirst(AlertRows(st, location_type, location_id)))

\* "except Exception" catches every exception and returns []
fetch_location_data(st, location_type, location_id, db) ==
    IF db # "ok" THEN Returns(<<>>)
    ELSE Returns(NewestFirst(AlertRows(st, location_type, location_id)))

---------------------------------------------------------------------------
(* generate_answer, app.py:203-267 *)

NoPrompt == [language |-> "", query |-> <<>>, context |-> <<>>]

\* an answer text: who wrote it, which fixed text it is, and for a model
\* completion the prompt it answers
Answer(by, text, prompt) == [by |-> by, text |-> text, prompt |-> prompt]

\* user_context: the projection of the alert rows in the target language
UserContext(rows, language) ==
    [i \in 1..Len(rows) |->
        [type |-> <<"alert_type", language, rows[i].alert_id>>,
         status |-> <<"status", language, rows[i].alert_id>>,
         areas |-> rows[i].gov_names,
         hazards |-> rows[i].hazards]]

\* the fixed text returned when the chat completion raises
ErrorAnswer(language) ==
    Answer("generate_answer",
           IF language = "ar" THEN "hadatha khata fi tawlid ar-radd"
           ELSE "Error generating response", NoPrompt)

\* generate_answer without its except clause
generate_answer_NoExcept(q, rows, language, gptOk) ==
    IF gptOk
    THEN Returns(Answer("gpt-4", "completion",
                        [language |-> language, query |-> q,
                         context |-> UserContext(rows, language)]))
    ELSE Raises(<<>>)

\* "except Exception" catches every exception of the chat completion
generate_answer(q, rows, language, gptOk) ==
    IF gptOk
    THEN Returns(Answer("gpt-4", "completion",
                        [language |-> language, query |-> q,
                         context |-> UserContext(rows, language)]))
    ELSE Returns(ErrorAnswer(language))

---------------------------------------------------------------------------
(* handle_query, app.py:269-313 *)

ScoreThresholds == {-1000, 750}

\* QueryRequest: k is any int and score_threshold any float
Payloads ==
    [query : Queries, k : -1..MaxK, score_threshold : ScoreThresholds]

NoPayload == [query |-> <<>>, k |-> 0, score_threshold |-> 0]

NoResponse == [status |-> 0]

\* raise HTTPException(status_code=400, detail="Empty query")
EmptyQueryError == [status |-> 400, detail |-> "Empty query"]

\* what the framework answers when an exception leaves handle_query
InternalServerError == [status |-> 500, detail |-> "Internal Server Error"]

QueryResponse(answer, sources, confidence) ==
    [status |-> 200, answer |-> answer, sources |-> sources,
     confidence |-> confidence]

\* "if query is None" in place of "if not query"
IsEmptyQuery_NoneOnly(q) == FALSE

\* if not query
IsEmptyQuery(q) == q = <<>>

\* the English text whatever the language
NoResultsAnswer_EnglishOnly(language) ==
    Answer("handle_query", "No results found", NoPrompt)

NoResultsAnswer(language) ==
    Answer("handle_query",
           IF language = "ar" THEN "la tujad nataij" ELSE "No results found",
           NoPrompt)

NoAlertsAnswer(language) ==
    Answer("handle_query",
           IF language = "ar" THEN "la tujad tanbihat haliya"
           ELSE "No current alerts", NoPrompt)

\* the source entry with the score left unrounded
SourceOf_Unrounded(best_match) ==
    [type |-> best_match.type, id |-> best_match.id,
     name_ar |-> best_match.name_ar, name_en |-> best_match.name_en,
     score |-> best_match.score]

\* the one entry of sources
SourceOf(best_match) ==
    [type |-> best_match.type, id |-> best_match.id,
     name_ar |-> best_match.name_ar, name_en |-> best_match.name_en,
     score |-> Round2(best_match.score)]

\* locations[-1] in place of locations[0]
BestMatch_Last(locs) == locs[Len(locs)]

\* best_match = locations[0]
BestMatch(locs) == locs[1]

NoMatchResponse(language) ==
    QueryResponse(NoResultsAnswer(language), <<>>, Num(0))

NoAlertsResponse(language, best_match) ==
    QueryResponse(NoAlertsAnswer(language), <<SourceOf(best_match)>>,
                  Round2(best_match.score))

AnswerResponse(answer, best_match) ==
    QueryResponse(answer, <<SourceOf(best_match)>>, Round2(best_match.score))

\* a request arrives
Receive ==
    /\ pc = "idle"
    /\ \E p \in Payloads : payload' = p
    /\ pc' = "validate"
    /\ UNCHANGED <<store, EMBED_CACHE, CONN_POOL, query, lang, query_emb,
                   locations, data, response, calls, fetchArgs, faults>>
    /\ UNCHANGED embVars
    /\ UNCHANGED poolVars
    /\ UNCHANGED det
    /\ UNCHANGED <<fetchVars, lazyVars, loaderVars, chatVars>>

\* query = payload.query.strip(); if not query: raise HTTPException(400)
ValidateInput ==
    /\ pc = "validate"
    /\ query' = Strip(payload.query)
    /\ calls' = Append(calls, "validate")
    /\ IF IsEmptyQuery(Strip(payload.query))
       THEN response' = EmptyQueryError /\ pc' = "done"
       ELSE response' = response /\ pc' = "detect"
    /\ UNCHANGED <<store, EMBED_CACHE, CONN_POOL, payload, lang, query_emb,
                   locations, data, fetchArgs, faults>>
    /\ UNCHANGED embVars
    /\ UNCHANGED poolVars
    /\ UNCHANGED det
    /\ UNCHANGED <<fetchVars, lazyVars, loaderVars, chatVars>>

\* lang = detect_language(query)
DetectLanguage ==
    /\ pc = "detect"
    /\ \E detector \in DetectorOutcomes :
          LET r == detect_language(query, detector)
          IN  /\ faults' = IF detector = "raises"
                           THEN faults \cup {"detector"} ELSE faults
              /\ IF r.raised
                 THEN /\ response' = InternalServerError
                      /\ pc' = "done"
                      /\ lang' = lang
                 ELSE /\ response' = response
                      /\ pc' = "embed"
                      /\ lang' = r.value
    /\ calls' = Append(calls, "detect")
    /\ UNCHANGED <<store, EMBED_CACHE, CONN_POOL, payload, query, query_emb,
                   locations, data, fetchArgs>>
    /\ UNCHANGED embVars
    /\ UNCHANGED poolVars
    /\ UNCHANGED det
    /\ UNCHANGED <<fetchVars, lazyVars, loaderVars, chatVars>>

\* query_emb = get_embedding(query)
Embed ==
    /\ pc = "embed"
    /\ \E serviceOk \in BOOLEAN :
          LET r == get_embedding(EMBED_CACHE, query, serviceOk)
          IN  /\ EMBED_CACHE' = r.cache
              /\ faults' = IF r.called /\ ~serviceOk
                           THEN faults \cup {"embedding"} ELSE faults
              /\ IF r.raised
                 THEN /\ response' = InternalServerError
                      /\ pc' = "done"
                      /\ query_emb' = query_emb
                 ELSE /\ response' = response
                      /\ pc' = "retrieve"
                      /\ query_emb' = r.value
    /\ calls' = Append(calls, "embed")
    /\ UNCHANGED <<store, CONN_POOL, payload, query, lang, locations, data,
                   fetchArgs>>
    /\ UNCHANGED embVars
    /\ UNCHANGED poolVars
    /\ UNCHANGED det
    /\ UNCHANGED <<fetchVars, lazyVars, loaderVars, chatVars>>

\* locations = find_top_location(...); if not locations: return "no results"
Retrieve ==
    /\ pc = "retrieve"
    /\ \E db \in DbOutcomes :
          /\ CONN_POOL' = get_db_connection(CONN_POOL, db)
          /\ faults' = IF db # "ok"
                       THEN faults \cup {"store_retrieve"} ELSE faults
          /\ \E r \in find_top_location(store, query_emb, payload.k,
                                        payload.score_threshold, db) :
                IF r.raised
                THEN /\ response' = InternalServerError
                     /\ pc' = "done"
                     /\ locations' = locations
                ELSE /\ locations' = r.value
                     /\ IF r.value = <<>>
                        THEN response' = NoMatchResponse(lang) /\ pc' = "done"
                        ELSE response' = response /\ pc' = "aggregate"
    /\ calls' = Append(calls, "retrieve")
    /\ UNCHANGED <<store, EMBED_CACHE, payload, query, lang, query_emb, data,
                   fetchArgs>>
    /\ UNCHANGED embVars
    /\ UNCHANGED poolVars
    /\ UNCHANGED det
    /\ UNCHANGED <<fetchVars, lazyVars, loaderVars, chatVars>>

\* the aggregation stage without the "if not data" test: whatever was
\* fetched, the request goes on to generate_answer
Aggregate_NoEmptyTest ==
    /\ pc = "aggregate"
    /\ \E db \in DbOutcomes :
          LET best_match == BestMatch(locations)
              r == fetch_location_data(store, best_match.type,
                                       best_match.id, db)
          IN  /\ CONN_POOL' = get_db_connection(CONN_POOL, db)
              /\ faults' = IF db # "ok"
                           THEN faults \cup {"store_fetch"} ELSE faults
              /\ fetchArgs' = Append(fetchArgs,
                                     <<best_match.type, best_match.id>>)
              /\ data' = r.value
    /\ response' = response
    /\ pc' = "generate"
    /\ calls' = Append(calls, "aggregate")
    /\ UNCHANGED <<store, EMBED_CACHE, payload, query, lang, query_emb,
                   locations>>
    /\ UNCHANGED embVars
    /\ UNCHANGED poolVars
    /\ UNCHANGED det
    /\ UNCHANGED <<fetchVars, lazyVars, loaderVars, chatVars>>

\* data = fetch_location_data(best_match["type"], best_match["id"]);
\* if not data: return "no current alerts"
Aggregate ==
    /\ pc = "aggregate"
    /\ \E db \in DbOutcomes :
          LET best_match == BestMatch(locations)
              r == fetch_location_data(store, best_match.type,
                                       best_match.id, db)
          IN  /\ CONN_POOL' = get_db_connection(CONN_POOL, db)
              /\ faults' = IF db # "ok"
                           THEN faults \cup {"store_fetch"} ELSE faults
              /\ fetchArgs' = Append(fetchArgs,
                                     <<best_match.type, best_match.id>>)
              /\ IF r.raised
                 THEN /\ response' = InternalServerError
                      /\ pc' = "done"
                      /\ data' = data
                 ELSE /\ data' = r.value
                      /\ IF r.value = <<>>
                         THEN /\ response' = NoAlertsResponse(lang, best_match)
                              /\ pc' = "done"
                         ELSE response' = response /\ pc' = "generate"
    /\ calls' = Append(calls, "aggregate")
    /\ UNCHANGED <<store, EMBED_CACHE, payload, query, lang, query_emb,
                   locations>>
    /\ UNCHANGED embVars
    /\ UNCHANGED poolVars
    /\ UNCHANGED det
    /\ UNCHANGED <<fetchVars, lazyVars, loaderVars, chatVars>>

\* answer = generate_answer(query, data, lang); return QueryResponse(...)
GenerateAnswer ==
    /\ pc = "generate"
    /\ \E gptOk \in BOOLEAN :
          LET r == generate_answer(query, data, lang, gptOk)
          IN  /\ faults' = IF gptOk THEN faults ELSE faults \cup {"gpt"}
              /\ response' = IF r.raised THEN InternalServerError
                             ELSE AnswerResponse(r.value, BestMatch(locations))
    /\ calls' = Append(calls, "generate")
    /\ pc' = "done"
    /\ UNCHANGED <<store, EMBED_CACHE, CONN_POOL, payload, query, lang,
                   query_emb, locations, data, fetchArgs>>
    /\ UNCHANGED embVars
    /\ UNCHANGED poolVars
    /\ UNCHANGED det
    /\ UNCHANGED <<fetchVars, lazyVars, loaderVars, chatVars>>

\* the response is sent; the request's locals are gone
Respond ==
    /\ pc = "done"
    /\ pc' = "idle"
    /\ payload' = NoPayload
    /\ query' = <<>>
    /\ lang' = "en"
    /\ query_emb' = ZeroVector
    /\ locations' = <<>>
    /\ data' = <<>>
    /\ response' = NoResponse
    /\ calls' = <<>>
    /\ fetchArgs' = <<>>
    /\ faults' = {}
    /\ UNCHANGED <<store, EMBED_CACHE, CONN_POOL>>
    /\ UNCHANGED embVars
    /\ UNCHANGED poolVars
    /\ UNCHANGED det
    /\ UNCHANGED <<fetchVars, lazyVars, loaderVars, chatVars>>

---------------------------------------------------------------------------
(* The loader, load.py: its data *)

\* the id lists process_data keeps: regions_seen, govs_seen, alerts_seen,
\* hazards_seen, and the upsert batch of each
LoaderKinds == {"region", "governorate", "alert", "hazard"}

LoaderGovIds == {1, 2}

\* A feature's properties: Region_ID, GovID and the alert list, here with
\* at most one alert that has at most one hazard; 0 stands for a missing id.
Features ==
    { [region |-> 1, gov |-> g, alert |-> a, hazard |-> h] :
        g \in LoaderGovIds, a \in {0, 1}, h \in {0, 1} }
    \ { [region |-> 1, gov |-> g, alert |-> 0, hazard |-> 1] :
          g \in LoaderGovIds }

\* data["features"] of a downloaded file
Files == UNION { [1..n -> Features] : n \in 0..MaxFeatures }

\* the ids get_embedding is called for
EmbKeys ==
    {<<"region", 1>>, <<"hazard", 1>>}
        \cup {<<"governorate", g>> : g \in LoaderGovIds}

\* f"{name_ar} - {name_en}" and f"{desc_ar} | {desc_en}": never blank
LoaderText(key) ==
    <<Run("A", 2 + key[2]), Run("S", 1), Run("L", 1), Run("S", 1),
      Run("L", 3 + key[2])>>

\* the tables the loader writes, as the ids (or id pairs) of their rows
NoRows ==
    [regions |-> {}, governorates |-> {}, alerts |-> {}, hazards |-> {},
     alert_hazards |-> {}, alert_governorates |-> {}]

\* load.py:112
max_retries == 3

\* no call of the loader's get_embedding is running
NoEmb ==
    [state |-> "none", text |-> <<>>, attempt |-> 0, asked |-> 0,
     waits |-> <<>>, result |-> ZeroVector]

\* load.py:108-110: text = text.strip(); if not text: return [0.0] * 1536
GetEmbeddingEnter(text) ==
    IF Strip(text) = <<>>
    THEN [NoEmb EXCEPT !.state = "returned", !.text = text]
    ELSE [NoEmb EXCEPT !.state = "running", !.text = text]

\* get_embedding that gives up by returning the zero vector
GetEmbeddingAttempt_ReturnsZero(e, ok) ==
    IF ok
    THEN [e EXCEPT !.state = "returned", !.asked = @ + 1,
                   !.result = EmbeddingService(Strip(e.text))]
    ELSE IF e.attempt = max_retries - 1
    THEN [e EXCEPT !.state = "returned", !.asked = @ + 1]
    ELSE [e EXCEPT !.attempt = @ + 1, !.asked = @ + 1,
                   !.waits = Append(@, 2 ^ e.attempt)]

\* load.py:113-123: one pass of the retry loop.  The service answers and
\* its vector is returned; or it fails, and the call sleeps 2 ** attempt
\* seconds before the next pass, or re-raises on the last pass.
GetEmbeddingAttempt(e, ok) ==
    IF ok
    THEN [e EXCEPT !.state = "returned", !.asked = @ + 1,
                   !.result = EmbeddingService(Strip(e.text))]
    ELSE IF e.attempt = max_retries - 1
    THEN [e EXCEPT !.state = "raised", !.asked = @ + 1]
    ELSE [e EXCEPT !.attempt = @ + 1, !.asked = @ + 1,
                   !.waits = Append(@, 2 ^ e.attempt)]

\* the locals of process_data at its start
NoBatches ==
    [i |-> 0, stage |-> "", key |-> <<"", 0>>,
     seen |-> [k \in LoaderKinds |-> {}],
     batch |-> [k \in LoaderKinds |-> <<>>],
     alert_hazard_batch |-> <<>>,
     alert_governorate_batch |-> <<>>,
     calls |-> [k \in EmbKeys |-> 0]]

\* the loader process has not started its first cycle: no file on disk,
\* empty tables
LoaderStart ==
    [pc |-> "start", file |-> <<>>, on_disk |-> FALSE, work |-> NoBatches,
     emb |-> NoEmb, conn |-> "none", txn |-> NoRows, db |-> NoRows,
     error |-> "", wait |-> 0]

---------------------------------------------------------------------------
(* Specifications *)

Callers == 1..NumCallers

\* the first 512 characters of a text
Prefix512(t) == Take(t, 512)

Prefixes == {Prefix512(t) : t \in Texts}

\* nothing returned and nothing stored yet for a prefix
NoHistory ==
    [returned |-> FALSE, first |-> ZeroVector,
     stored |-> FALSE, firstStored |-> ZeroVector]

NoInfo == [hit |-> FALSE, called |-> FALSE, first |-> FALSE, stored |-> FALSE]

InitRequest ==
    /\ pc = "idle"
    /\ payload = NoPayload
    /\ query = <<>>
    /\ lang = "en"
    /\ query_emb = ZeroVector
    /\ locations = <<>>
    /\ data = <<>>
    /\ response = NoResponse
    /\ calls = <<>>
    /\ fetchArgs = <<>>
    /\ faults = {}

InitCallers ==
    /\ epc = [c \in Callers |-> "idle"]
    /\ etext = [c \in Callers |-> <<>>]
    /\ eresult = [c \in Callers |-> ZeroVector]
    /\ einfo = [c \in Callers |-> NoInfo]
    /\ embHist = [p \in Prefixes |-> NoHistory]

\* no connection is out and no call is running
InitPool ==
    /\ used = 0
    /\ holders = [op \in StoreOps |-> 0]
    /\ outcome = NoOutcome
    /\ det = NoDetection

NoFetch == [pc |-> "idle", type |-> "", id |-> 0, db |-> "", rows |-> <<>>]

InitFetch == fetched = NoFetch

Threads == 1..NumThreads

\* CONN_POOL = None and no thread has asked for a connection
InitLazy ==
    /\ made = 0
    /\ poolNow = 0
    /\ tpc = [t \in Threads |-> "idle"]
    /\ tconn = [t \in Threads |-> 0]
    /\ tend = [t \in Threads |-> ""]

InitLoader == loader = LoaderStart

\* cb.py:261-262: a new session has an empty history; the script has run
\* and the page waits for the user
NoChat == [messages |-> <<>>, pc |-> "waiting", input |-> "", rerun |-> ""]

InitChat == chat = NoChat

\* the process has just started; the store holds what the loader put there
Init ==
    /\ store \in Stores
    /\ EMBED_CACHE = <<>>
    /\ CONN_POOL = "None"
    /\ InitRequest
    /\ InitCallers
    /\ InitPool
    /\ InitFetch
    /\ InitLazy
    /\ InitLoader
    /\ InitChat

Next ==
    \/ Receive
    \/ ValidateInput
    \/ DetectLanguage
    \/ Embed
    \/ Retrieve
    \/ Aggregate
    \/ GenerateAnswer
    \/ Respond

Spec == Init /\ [][Next]_vars

---------------------------------------------------------------------------
(* get_embedding called directly, by one caller or by several at once.  A  *)
(* call is two steps: the cache lookup up to the request to the embedding  *)
(* service, and the service's reply; other callers run in between.         *)

\* the history of a prefix after a call for it returned v, having stored
\* it in the cache or not
Recorded(h, v, storing) ==
    [returned |-> TRUE,
     first |-> IF h.returned THEN h.first ELSE v,
     stored |-> h.stored \/ storing,
     firstStored |-> IF ~h.stored /\ storing THEN v ELSE h.firstStored]

\* caller c's call returns v
Complete(c, text, v, hit, called, storing) ==
    /\ epc' = [epc EXCEPT ![c] = "done"]
    /\ etext' = [etext EXCEPT ![c] = text]
    /\ eresult' = [eresult EXCEPT ![c] = v]
    /\ einfo' = [einfo EXCEPT ![c] =
                    [hit |-> hit, called |-> called,
                     first |-> ~embHist[Prefix512(text)].returned,
                     stored |-> storing]]
    /\ embHist' = [embHist EXCEPT ![Prefix512(text)] =
                      Recorded(embHist[Prefix512(text)], v, storing)]

\* a get_embedding that does not look in the cache
EmbCall_NoLookup(c, text) ==
    /\ epc[c] = "idle"
    /\ IF EmbedInput(text) = <<>>
       THEN Complete(c, text, ZeroVector, FALSE, FALSE, FALSE)
       ELSE /\ epc' = [epc EXCEPT ![c] = "calling"]
            /\ etext' = [etext EXCEPT ![c] = text]
            /\ UNCHANGED <<eresult, einfo, embHist>>
    /\ UNCHANGED EMBED_CACHE
    /\ UNCHANGED <<store, CONN_POOL>>
    /\ UNCHANGED reqVars
    /\ UNCHANGED poolVars
    /\ UNCHANGED det
    /\ UNCHANGED <<fetchVars, lazyVars, loaderVars, chatVars>>

\* app.py:77-85: the lookup, the trimming, and the request to the service
EmbCall(c, text) ==
    /\ epc[c] = "idle"
    /\ IF CacheKey(text) \in DOMAIN EMBED_CACHE
       THEN Complete(c, text, EMBED_CACHE[CacheKey(text)], TRUE, FALSE, FALSE)
       ELSE IF EmbedInput(text) = <<>>
       THEN Complete(c, text, ZeroVector, FALSE, FALSE, FALSE)
       ELSE /\ epc' = [epc EXCEPT ![c] = "calling"]
            /\ etext' = [etext EXCEPT ![c] = text]
            /\ UNCHANGED <<eresult, einfo, embHist>>
    /\ UNCHANGED EMBED_CACHE
    /\ UNCHANGED <<store, CONN_POOL>>
    /\ UNCHANGED reqVars
    /\ UNCHANGED poolVars
    /\ UNCHANGED det
    /\ UNCHANGED <<fetchVars, lazyVars, loaderVars, chatVars>>

\* the reply of a get_embedding whose except clause stores the zero vector
\* it returns
EmbReply_StoresFailure(c, serviceOk) ==
    /\ epc[c] = "calling"
    /\ IF serviceOk
       THEN /\ EMBED_CACHE' =
                  CachePut(EMBED_CACHE, CacheKey(etext[c]),
                           EmbeddingService(EmbedInput(etext[c])))
            /\ Complete(c, etext[c], EmbeddingService(EmbedInput(etext[c])),
                        FALSE, TRUE, TRUE)
       ELSE /\ EMBED_CACHE' =
                  CachePut(EMBED_CACHE, CacheKey(etext[c]), ZeroVector)
            /\ Complete(c, etext[c], ZeroVector, FALSE, TRUE, FALSE)
    /\ UNCHANGED <<store, CONN_POOL>>
    /\ UNCHANGED reqVars
    /\ UNCHANGED poolVars
    /\ UNCHANGED det
    /\ UNCHANGED <<fetchVars, lazyVars, loaderVars, chatVars>>

\* app.py:86-92: the service answers and the vector is stored, or the
\* service fails and the zero vector is returned
EmbReply(c, serviceOk) ==
    /\ epc[c] = "calling"
    /\ IF serviceOk
       THEN /\ EMBED_CACHE' =
                  CachePut(EMBED_CACHE, CacheKey(etext[c]),
                           EmbeddingService(EmbedInput(etext[c])))
            /\ Complete(c, etext[c], EmbeddingService(EmbedInput(etext[c])),
                        FALSE, TRUE, TRUE)
       ELSE /\ EMBED_CACHE' = EMBED_CACHE
            /\ Complete(c, etext[c], ZeroVector, FALSE, TRUE, FALSE)
    /\ UNCHANGED <<store, CONN_POOL>>
    /\ UNCHANGED reqVars
    /\ UNCHANGED poolVars
    /\ UNCHANGED det
    /\ UNCHANGED <<fetchVars, lazyVars, loaderVars, chatVars>>

\* the caller takes the vector
EmbReturn(c) ==
    /\ epc[c] = "done"
    /\ epc' = [epc EXCEPT ![c] = "idle"]
    /\ etext' = [etext EXCEPT ![c] = <<>>]
    /\ eresult' = [eresult EXCEPT ![c] = ZeroVector]
    /\ einfo' = [einfo EXCEPT ![c] = NoInfo]
    /\ UNCHANGED <<embHist, EMBED_CACHE, store, CONN_POOL>>
    /\ UNCHANGED reqVars
    /\ UNCHANGED poolVars
    /\ UNCHANGED det
    /\ UNCHANGED <<fetchVars, lazyVars, loaderVars, chatVars>>

\* no row is needed to study the cache
InitEmbed ==
    /\ store = [regions |-> <<>>, govs |-> <<>>, links |-> {},
                region_of |-> <<>>, hazards |-> {}]
    /\ EMBED_CACHE = <<>>
    /\ CONN_POOL = "None"
    /\ InitRequest
    /\ InitCallers
    /\ InitPool
    /\ InitFetch
    /\ InitLazy
    /\ InitLoader
    /\ InitChat

\* several callers at once
NextEmbed ==
    \/ \E c \in Callers, text \in Texts : EmbCall(c, text)
    \/ \E c \in Callers, serviceOk \in BOOLEAN : EmbReply(c, serviceOk)
    \/ \E c \in Callers : EmbReturn(c)

SpecEmbed == InitEmbed /\ [][NextEmbed]_vars

\* one caller, one call after the other
NextEmbedSeq ==
    \/ \E text \in Texts : EmbCall(1, text)
    \/ \E serviceOk \in BOOLEAN : EmbReply(1, serviceOk)
    \/ EmbReturn(1)

SpecEmbedSeq == InitEmbed /\ [][NextEmbedSeq]_vars

---------------------------------------------------------------------------
(* The connection pool under concurrent calls.  The server runs each       *)
(* request in a thread of its own, so any number of calls of the three     *)
(* store operations are in progress at once; a call is the acquisition of  *)
(* its connection followed by its statement and its exit.                  *)

Ended(op, cause, result) == [op |-> op, cause |-> cause, result |-> result]

\* conn = get_db_connection() at the top of a call of op.  When it raises,
\* the call ends at once: conn is still None, so nothing is released.
AcquireConnection(op, db) ==
    /\ CONN_POOL' = get_db_connection(CONN_POOL, db)
    /\ IF PoolExhausted(CONN_POOL, used)
       THEN /\ outcome' = Ended(op, "exhausted", FailedResult(op))
            /\ UNCHANGED <<used, holders>>
       ELSE IF db = "connect_fails"
       THEN /\ outcome' = Ended(op, "connect_fails", FailedResult(op))
            /\ UNCHANGED <<used, holders>>
       ELSE /\ used' = used + 1
            /\ holders' = [holders EXCEPT ![op] = @ + 1]
            /\ UNCHANGED outcome
    /\ UNCHANGED <<store, EMBED_CACHE>>
    /\ UNCHANGED reqVars
    /\ UNCHANGED embVars
    /\ UNCHANGED det
    /\ UNCHANGED <<fetchVars, lazyVars, loaderVars, chatVars>>

\* the rest of find_top_location or fetch_location_data once it holds a
\* connection: the statement runs or raises, and the finally clause
\* releases the connection either way
FinishQuery(op, queryOk) ==
    /\ op \in {"find_top_location", "fetch_location_data"}
    /\ holders[op] > 0
    /\ holders' = [holders EXCEPT ![op] = @ - 1]
    /\ used' = used - 1
    /\ outcome' = IF queryOk THEN Ended(op, "ok", GoodResult(op))
                  ELSE Ended(op, "query_fails", FailedResult(op))
    /\ UNCHANGED <<store, EMBED_CACHE, CONN_POOL>>
    /\ UNCHANGED reqVars
    /\ UNCHANGED embVars
    /\ UNCHANGED det
    /\ UNCHANGED <<fetchVars, lazyVars, loaderVars, chatVars>>

\* the rest of health_check once it holds a connection: the release is the
\* statement after the with block, so it runs only when "SELECT 1" did not
\* raise; the except clause raises HTTPException(500) without releasing
FinishHealthCheck(queryOk) ==
    /\ holders["health_check"] > 0
    /\ holders' = [holders EXCEPT !["health_check"] = @ - 1]
    /\ used' = IF queryOk THEN used - 1 ELSE used
    /\ outcome' = IF queryOk
                  THEN Ended("health_check", "ok", GoodResult("health_check"))
                  ELSE Ended("health_check", "query_fails",
                             FailedResult("health_check"))
    /\ UNCHANGED <<store, EMBED_CACHE, CONN_POOL>>
    /\ UNCHANGED reqVars
    /\ UNCHANGED embVars
    /\ UNCHANGED det
    /\ UNCHANGED <<fetchVars, lazyVars, loaderVars, chatVars>>

NextPool ==
    \/ \E op \in StoreOps, db \in {"ok", "connect_fails"} :
          AcquireConnection(op, db)
    \/ \E op \in StoreOps, queryOk \in BOOLEAN : FinishQuery(op, queryOk)
    \/ \E queryOk \in BOOLEAN : FinishHealthCheck(queryOk)

SpecPool == InitEmbed /\ [][NextPool]_vars

---------------------------------------------------------------------------
(* detect_language called directly with any text *)

\* a caller passes a text; what the statistical detector will do with it,
\* if it is asked, is fixed by the text and the detector's state
DetCall(text, detector) ==
    /\ det.pc = "idle"
    /\ det' = [NoDetection EXCEPT !.pc = "called", !.text = text,
                                  !.detector = detector]
    /\ UNCHANGED <<store, EMBED_CACHE, CONN_POOL>>
    /\ UNCHANGED reqVars
    /\ UNCHANGED embVars
    /\ UNCHANGED poolVars
    /\ UNCHANGED <<fetchVars, lazyVars, loaderVars, chatVars>>

\* app.py:60-72
DetReturn ==
    /\ det.pc = "called"
    /\ LET r == detect_language(det.text, det.detector)
       IN  det' = [det EXCEPT !.pc = "returned", !.raised = r.raised,
                              !.result = r.value]
    /\ UNCHANGED <<store, EMBED_CACHE, CONN_POOL>>
    /\ UNCHANGED reqVars
    /\ UNCHANGED embVars
    /\ UNCHANGED poolVars
    /\ UNCHANGED <<fetchVars, lazyVars, loaderVars, chatVars>>

\* the caller takes the result
DetDone ==
    /\ det.pc = "returned"
    /\ det' = NoDetection
    /\ UNCHANGED <<store, EMBED_CACHE, CONN_POOL>>
    /\ UNCHANGED reqVars
    /\ UNCHANGED embVars
    /\ UNCHANGED poolVars
    /\ UNCHANGED <<fetchVars, lazyVars, loaderVars, chatVars>>

NextDetect ==
    \/ \E text \in DetectTexts, detector \in DetectorOutcomes :
          DetCall(text, detector)
    \/ DetReturn
    \/ DetDone

SpecDetect == InitEmbed /\ [][NextDetect]_vars

---------------------------------------------------------------------------
(* fetch_location_data called directly, on stores with several regions,    *)
(* alerts and hazards                                                      *)

FetchAlertIds == {1, 2}

HazardIds == {1}

FetchRegionIds == {1, 2}

\* every governorate row exists and belongs to one of two regions; links
\* is alert_governorates, hazards is alert_hazards
FetchStores ==
    { [regions |-> [r \in FetchRegionIds |-> Vec(0)],
       govs |-> [g \in GovIds |-> Vec(0)],
       links |-> l, region_of |-> ro, hazards |-> h] :
        l \in SUBSET (FetchAlertIds \X GovIds),
        ro \in [GovIds -> FetchRegionIds],
        h \in SUBSET (FetchAlertIds \X HazardIds) }

FetchCall(location_type, location_id, db) ==
    /\ fetched.pc = "idle"
    /\ fetched' = [NoFetch EXCEPT !.pc = "called", !.type = location_type,
                                  !.id = location_id, !.db = db]
    /\ UNCHANGED <<store, EMBED_CACHE, CONN_POOL, det>>
    /\ UNCHANGED <<reqVars, embVars, poolVars, lazyVars, loaderVars,
                   chatVars>>

\* app.py:144-200
FetchReturn ==
    /\ fetched.pc = "called"
    /\ LET r == fetch_location_data(store, fetched.type, fetched.id,
                                    fetched.db)
       IN  fetched' = [fetched EXCEPT !.pc = "returned", !.rows = r.value]
    /\ UNCHANGED <<store, EMBED_CACHE, CONN_POOL, det>>
    /\ UNCHANGED <<reqVars, embVars, poolVars, lazyVars, loaderVars,
                   chatVars>>

\* the caller takes the rows
FetchDone ==
    /\ fetched.pc = "returned"
    /\ fetched' = NoFetch
    /\ UNCHANGED <<store, EMBED_CACHE, CONN_POOL, det>>
    /\ UNCHANGED <<reqVars, embVars, poolVars, lazyVars, loaderVars,
                   chatVars>>

InitFetchStore ==
    /\ store \in FetchStores
    /\ EMBED_CACHE = <<>>
    /\ CONN_POOL = "None"
    /\ InitRequest
    /\ InitCallers
    /\ InitPool
    /\ InitFetch
    /\ InitLazy
    /\ InitLoader
    /\ InitChat

NextFetch ==
    \/ \E location_type \in {"region", "governorate"},
          location_id \in FetchRegionIds \cup GovIds, db \in DbOutcomes :
          FetchCall(location_type, location_id, db)
    \/ FetchReturn
    \/ FetchDone

SpecFetch == InitFetchStore /\ [][NextFetch]_vars

---------------------------------------------------------------------------
(* The loader, load.py: main_loop, download_file, process_data *)

othersOfLoader == <<store, EMBED_CACHE, CONN_POOL, det>>

\* the feature the loop of process_data is at
Feat(l) == l.file[l.work.i]

\* the loop goes on to the next feature, or to the upserts after the last
AfterFeature(l) ==
    IF l.work.i < Len(l.file)
    THEN [l EXCEPT !.pc = "features", !.work.i = @ + 1,
                   !.work.stage = "region"]
    ELSE [l EXCEPT !.pc = "upsert", !.work.i = 1, !.work.stage = "upsert"]

\* the id is not remembered as seen before get_embedding is called
CallEmbedding_NotRemembered(l, key) ==
    [l EXCEPT !.pc = "embedding", !.work.key = key,
              !.work.calls[key] = @ + 1,
              !.emb = GetEmbeddingEnter(LoaderText(key))]

\* regions_seen.add(region_id); region_emb = get_embedding(region_text),
\* and the same for a governorate and a hazard
CallEmbedding(l, key) ==
    [l EXCEPT !.pc = "embedding", !.work.key = key,
              !.work.seen[key[1]] = @ \cup {key[2]},
              !.work.calls[key] = @ + 1,
              !.emb = GetEmbeddingEnter(LoaderText(key))]

\* One step of the body of `for feat in features`: the region part, the
\* governorate part, the alert and its governorate link, the hazard and
\* its alert link.
FeatureStep(l) ==
    LET f == Feat(l)
        w == l.work
    IN  CASE w.stage = "region" ->
               IF f.region # 0 /\ f.region \notin w.seen["region"]
               THEN CallEmbedding(l, <<"region", f.region>>)
               ELSE [l EXCEPT !.work.stage = "governorate"]
          [] w.stage = "governorate" ->
               IF f.gov # 0 /\ f.gov \notin w.seen["governorate"]
               THEN CallEmbedding(l, <<"governorate", f.gov>>)
               ELSE [l EXCEPT !.work.stage = "alert"]
          [] w.stage = "alert" ->
               IF f.alert = 0
               THEN AfterFeature(l)
               ELSE [l EXCEPT
                       !.work.stage = "hazard",
                       !.work.seen["alert"] = @ \cup {f.alert},
                       !.work.batch["alert"] =
                           IF f.alert \in w.seen["alert"]
                           THEN @
                           ELSE Append(@, [id |-> f.alert, from |-> w.i]),
                       !.work.alert_governorate_batch =
                           IF f.gov # 0
                           THEN Append(@, <<f.alert, f.gov>>)
                           ELSE @]
          [] w.stage = "hazard" ->
               IF f.hazard = 0
               THEN AfterFeature(l)
               ELSE IF f.hazard \notin w.seen["hazard"]
               THEN CallEmbedding(l, <<"hazard", f.hazard>>)
               ELSE AfterFeature(
                      [l EXCEPT !.work.alert_hazard_batch =
                                   Append(@, <<f.alert, f.hazard>>)])

\* get_embedding has ended: its vector goes into the batch of its id, or
\* its exception leaves the loop for the except clause of process_data
TakeEmbedding(l) ==
    LET key == l.work.key
        ended == [l EXCEPT !.emb = NoEmb]
        row == [id |-> key[2], from |-> l.work.i, emb |-> l.emb.result]
        got == [ended EXCEPT !.pc = "features",
                             !.work.batch[key[1]] = Append(@, row)]
    IN  IF l.emb.state = "raised"
        THEN [ended EXCEPT !.pc = "except"]
        ELSE CASE key[1] = "region" ->
                    [got EXCEPT !.work.stage = "governorate"]
               [] key[1] = "governorate" ->
                    [got EXCEPT !.work.stage = "alert"]
               [] key[1] = "hazard" ->
                    AfterFeature(
                      [got EXCEPT !.work.alert_hazard_batch =
                                     Append(@, <<Feat(l).alert, key[2]>>)])

\* the six execute_batch statements, in their order
UpsertOrder ==
    <<"regions", "governorates", "alerts", "hazards", "alert_hazards",
      "alert_governorates">>

Ids(batch) == {batch[j].id : j \in DOMAIN batch}

Pairs(batch) == {batch[j] : j \in DOMAIN batch}

\* the rows a batch list puts in its table
BatchRows(w, table) ==
    CASE table = "regions" -> Ids(w.batch["region"])
      [] table = "governorates" -> Ids(w.batch["governorate"])
      [] table = "alerts" -> Ids(w.batch["alert"])
      [] table = "hazards" -> Ids(w.batch["hazard"])
      [] table = "alert_hazards" -> Pairs(w.alert_hazard_batch)
      [] table = "alert_governorates" -> Pairs(w.alert_governorate_batch)

\* every batch of the cycle
AllRows(w) == [t \in DOMAIN NoRows |-> BatchRows(w, t)]

Merged(rows, more) == [t \in DOMAIN rows |-> rows[t] \cup more[t]]

\* a connection in autocommit mode: every statement is committed at once
Upsert_Autocommit(l, table) ==
    [l EXCEPT !.db[table] = @ \cup BatchRows(l.work, table)]

\* conn.autocommit = False: execute_batch writes in the open transaction
Upsert(l, table) ==
    [l EXCEPT !.txn[table] = @ \cup BatchRows(l.work, table)]

DownloadOutcomes == {"ok", "request_fails", "remove_fails", "save_fails"}

\* main_loop calls download_file: the request, the removal of the old
\* file, the save.  Each failure ends in sys.exit(1), and SystemExit is
\* not an Exception, so the except clause of main_loop does not catch it.
LoaderDownload(file, how) ==
    /\ loader.pc = "start"
    /\ how = "remove_fails" => loader.on_disk
    /\ loader' =
         IF how = "ok"
         THEN [loader EXCEPT !.pc = "connect", !.file = file,
                             !.on_disk = TRUE]
         ELSE [loader EXCEPT !.pc = "exited", !.error = "SystemExit",
                             !.on_disk = (how = "request_fails"
                                             /\ loader.on_disk)]
    /\ UNCHANGED othersOfLoader
    /\ UNCHANGED <<reqVars, embVars, poolVars, fetchVars, lazyVars,
                   chatVars>>

\* wait_for_db() and psycopg2.connect(), both before the try statement
LoaderConnect(ok) ==
    /\ loader.pc = "connect"
    /\ loader' =
         IF ok
         THEN [loader EXCEPT !.pc = "read", !.conn = "open",
                             !.txn = NoRows]
         ELSE [loader EXCEPT !.pc = "sleep", !.error = "Exception",
                             !.wait = 60]
    /\ UNCHANGED othersOfLoader
    /\ UNCHANGED <<reqVars, embVars, poolVars, fetchVars, lazyVars,
                   chatVars>>

\* json.load(f) and the empty batch lists and seen sets
LoaderRead(ok) ==
    /\ loader.pc = "read"
    /\ loader' =
         IF ~ok
         THEN [loader EXCEPT !.pc = "except"]
         ELSE IF loader.file = <<>>
         THEN [loader EXCEPT !.pc = "upsert", !.work.i = 1,
                             !.work.stage = "upsert"]
         ELSE [loader EXCEPT !.pc = "features", !.work.i = 1,
                             !.work.stage = "region"]
    /\ UNCHANGED othersOfLoader
    /\ UNCHANGED <<reqVars, embVars, poolVars, fetchVars, lazyVars,
                   chatVars>>

LoaderFeature ==
    /\ loader.pc = "features"
    /\ loader' = FeatureStep(loader)
    /\ UNCHANGED othersOfLoader
    /\ UNCHANGED <<reqVars, embVars, poolVars, fetchVars, lazyVars,
                   chatVars>>

\* one pass of the retry loop of get_embedding
GetEmbeddingStep(ok) ==
    /\ loader.emb.state = "running"
    /\ loader' = [loader EXCEPT !.emb = GetEmbeddingAttempt(@, ok)]
    /\ UNCHANGED othersOfLoader
    /\ UNCHANGED <<reqVars, embVars, poolVars, fetchVars, lazyVars,
                   chatVars>>

LoaderTakeEmbedding ==
    /\ loader.pc = "embedding"
    /\ loader.emb.state \in {"returned", "raised"}
    /\ loader' = TakeEmbedding(loader)
    /\ UNCHANGED othersOfLoader
    /\ UNCHANGED <<reqVars, embVars, poolVars, fetchVars, lazyVars,
                   chatVars>>

\* `if region_batch: execute_batch(...)` and the five after it: an empty
\* batch runs no statement, so it cannot fail
LoaderUpsert(ok) ==
    LET table == UpsertOrder[loader.work.i]
        done == Upsert(loader, table)
    IN  /\ loader.pc = "upsert"
        /\ ~ok => BatchRows(loader.work, table) # {}
        /\ loader' =
             IF ~ok
             THEN [loader EXCEPT !.pc = "except"]
             ELSE IF loader.work.i = Len(UpsertOrder)
             THEN [done EXCEPT !.pc = "commit"]
             ELSE [done EXCEPT !.work.i = @ + 1]
        /\ UNCHANGED othersOfLoader
        /\ UNCHANGED <<reqVars, embVars, poolVars, fetchVars, lazyVars,
                   chatVars>>

\* conn.commit()
LoaderCommit(ok) ==
    /\ loader.pc = "commit"
    /\ loader' =
         IF ok
         THEN [loader EXCEPT !.pc = "finally",
                             !.db = Merged(@, loader.txn),
                             !.txn = NoRows]
         ELSE [loader EXCEPT !.pc = "except"]
    /\ UNCHANGED othersOfLoader
    /\ UNCHANGED <<reqVars, embVars, poolVars, fetchVars, lazyVars,
                   chatVars>>

\* except Exception: conn.rollback(); raise
LoaderExcept ==
    /\ loader.pc = "except"
    /\ loader' = [loader EXCEPT !.pc = "finally", !.txn = NoRows,
                                !.error = "Exception"]
    /\ UNCHANGED othersOfLoader
    /\ UNCHANGED <<reqVars, embVars, poolVars, fetchVars, lazyVars,
                   chatVars>>

\* finally: conn.close(); then main_loop sleeps an hour, or a minute in
\* its except clause when process_data raised
LoaderFinally ==
    /\ loader.pc = "finally"
    /\ loader' = [loader EXCEPT !.pc = "sleep", !.conn = "closed",
                                !.wait = IF loader.error = ""
                                         THEN 3600 ELSE 60]
    /\ UNCHANGED othersOfLoader
    /\ UNCHANGED <<reqVars, embVars, poolVars, fetchVars, lazyVars,
                   chatVars>>

\* the sleep ends and `while True` starts the next cycle; nothing of the
\* last cycle is left but the file on disk and the tables
LoaderWake ==
    /\ loader.pc = "sleep"
    /\ loader' = [LoaderStart EXCEPT !.on_disk = loader.on_disk,
                                     !.db = loader.db]
    /\ UNCHANGED othersOfLoader
    /\ UNCHANGED <<reqVars, embVars, poolVars, fetchVars, lazyVars,
                   chatVars>>

NextLoader ==
    \/ \E file \in Files, how \in DownloadOutcomes :
          LoaderDownload(file, how)
    \/ \E ok \in BOOLEAN : LoaderConnect(ok)
    \/ \E ok \in BOOLEAN : LoaderRead(ok)
    \/ LoaderFeature
    \/ \E ok \in BOOLEAN : GetEmbeddingStep(ok)
    \/ LoaderTakeEmbedding
    \/ \E ok \in BOOLEAN : LoaderUpsert(ok)
    \/ \E ok \in BOOLEAN : LoaderCommit(ok)
    \/ LoaderExcept
    \/ LoaderFinally
    \/ LoaderWake

SpecLoader == InitEmbed /\ [][NextLoader]_vars

---------------------------------------------------------------------------
(* The loader's get_embedding called directly *)

GetEmbeddingCall(text) ==
    /\ loader.pc = "start"
    /\ loader.emb.state = "none"
    /\ loader' = [loader EXCEPT !.emb = GetEmbeddingEnter(text)]
    /\ UNCHANGED othersOfLoader
    /\ UNCHANGED <<reqVars, embVars, poolVars, fetchVars, lazyVars,
                   chatVars>>

\* the caller has the vector or the exception
GetEmbeddingDone ==
    /\ loader.pc = "start"
    /\ loader.emb.state \in {"returned", "raised"}
    /\ loader' = [loader EXCEPT !.emb = NoEmb]
    /\ UNCHANGED othersOfLoader
    /\ UNCHANGED <<reqVars, embVars, poolVars, fetchVars, lazyVars,
                   chatVars>>

NextLoaderEmbed ==
    \/ \E text \in DetectTexts : GetEmbeddingCall(text)
    \/ \E ok \in BOOLEAN : GetEmbeddingStep(ok)
    \/ GetEmbeddingDone

SpecLoaderEmbed == InitEmbed /\ [][NextLoaderEmbed]_vars

---------------------------------------------------------------------------
(* get_db_connection and release_db_connection, thread by thread *)

othersOfLazy == <<store, EMBED_CACHE, CONN_POOL, det>>

\* `if not CONN_POOL:` read by a thread that starts a store call
LazyTest(t) ==
    /\ tpc[t] = "idle"
    /\ tpc' = [tpc EXCEPT ![t] = IF poolNow = 0 THEN "create" ELSE "getconn"]
    /\ UNCHANGED <<made, poolNow, tconn, tend>>
    /\ UNCHANGED othersOfLazy
    /\ UNCHANGED <<reqVars, embVars, poolVars, fetchVars, loaderVars,
                   chatVars>>

\* CONN_POOL = SimpleConnectionPool(1, 20, dsn=DATABASE_URL): the new pool
\* opens its first connection and is then bound to the module variable; if
\* the database refuses, the exception ends the call in its except clause
\* with no connection to release
LazyCreate(t, ok) ==
    /\ tpc[t] = "create"
    /\ IF ok
       THEN /\ made' = made + 1
            /\ poolNow' = made + 1
            /\ tpc' = [tpc EXCEPT ![t] = "getconn"]
            /\ UNCHANGED tend
       ELSE /\ tpc' = [tpc EXCEPT ![t] = "done"]
            /\ tend' = [tend EXCEPT ![t] = "failed"]
            /\ UNCHANGED <<made, poolNow>>
    /\ UNCHANGED tconn
    /\ UNCHANGED othersOfLazy
    /\ UNCHANGED <<reqVars, embVars, poolVars, fetchVars, loaderVars,
                   chatVars>>

\* return CONN_POOL.getconn(): from the pool the variable names now
LazyGetconn(t) ==
    /\ tpc[t] = "getconn"
    /\ tconn' = [tconn EXCEPT ![t] = poolNow]
    /\ tpc' = [tpc EXCEPT ![t] = "query"]
    /\ UNCHANGED <<made, poolNow, tend>>
    /\ UNCHANGED othersOfLazy
    /\ UNCHANGED <<reqVars, embVars, poolVars, fetchVars, loaderVars,
                   chatVars>>

\* finally: release_db_connection(conn), that is CONN_POOL.putconn(conn) on
\* the pool the variable names now; a pool raises PoolError for a
\* connection it did not hand out
LazyRelease(t) ==
    /\ tpc[t] = "query"
    /\ tpc' = [tpc EXCEPT ![t] = "done"]
    /\ tend' = [tend EXCEPT ![t] =
                  IF tconn[t] = poolNow THEN "released" ELSE "PoolError"]
    /\ UNCHANGED <<made, poolNow, tconn>>
    /\ UNCHANGED othersOfLazy
    /\ UNCHANGED <<reqVars, embVars, poolVars, fetchVars, loaderVars,
                   chatVars>>

\* the call is over and the thread is free for the next request
LazyDone(t) ==
    /\ tpc[t] = "done"
    /\ tpc' = [tpc EXCEPT ![t] = "idle"]
    /\ tconn' = [tconn EXCEPT ![t] = 0]
    /\ tend' = [tend EXCEPT ![t] = ""]
    /\ UNCHANGED <<made, poolNow>>
    /\ UNCHANGED othersOfLazy
    /\ UNCHANGED <<reqVars, embVars, poolVars, fetchVars, loaderVars,
                   chatVars>>

NextLazy ==
    \/ \E t \in Threads : LazyTest(t)
    \/ \E t \in Threads, ok \in BOOLEAN : LazyCreate(t, ok)
    \/ \E t \in Threads : LazyGetconn(t)
    \/ \E t \in Threads : LazyRelease(t)
    \/ \E t \in Threads : LazyDone(t)

SpecLazy == InitEmbed /\ [][NextLazy]_vars

---------------------------------------------------------------------------
(* The chat UI, cb.py: run, render_sidebar, handle_user_input *)

othersOfChat == <<store, EMBED_CACHE, CONN_POOL, det>>

\* what st.chat_input returns when the user submits: never empty (cb.py:396)
UserInputs == {"floods in Tabuk", "rain"}

\* how requests.post, raise_for_status, response.json() and
\* process_server_response end
RequestOutcomes == {"ok", "bad_status", "timeout", "bad_body"}

\* the widgets of the sidebar the user can touch while the script runs
Widgets == {"slider", "clear"}

\* cb.py:326-335: the formatted answer, or the text of the except clause
ServerResponse(how) == IF how = "ok" THEN "answer" ELSE "System error"

Message(role, content) == [role |-> role, content |-> content]

\* cb.py:395-397 and 323-331: the user submits a text; the script runs,
\* handle_user_input appends the user message, opens the spinner and
\* sends the request
ChatSubmit(user_input) ==
    /\ chat.pc = "waiting"
    /\ Len(chat.messages) + 2 <= MaxMessages
    /\ chat' = [chat EXCEPT
                  !.messages = Append(@, Message("user", user_input)),
                  !.pc = "requesting",
                  !.input = user_input]
    /\ UNCHANGED othersOfChat
    /\ UNCHANGED <<reqVars, embVars, poolVars, fetchVars, lazyVars,
                   loaderVars>>

\* the user touches a widget while the request is out: the server asks
\* the running script to stop and run again with the new widget values
ChatInteract(widget) ==
    /\ chat.pc = "requesting"
    /\ chat.rerun = ""
    /\ chat' = [chat EXCEPT !.rerun = widget]
    /\ UNCHANGED othersOfChat
    /\ UNCHANGED <<reqVars, embVars, poolVars, fetchVars, lazyVars,
                   loaderVars>>

\* cb.py:332-338: the request ends and the spinner closes.  With no rerun
\* asked for, the assistant message is appended and st.rerun() shows it.
\* With a rerun asked for, the script is stopped where the spinner closes,
\* before line 337, and runs again from the top: the clear button then
\* empties the history (cb.py:312-314), the slider changes nothing, and
\* st.chat_input returns nothing for the text already submitted.
ChatReply(how) ==
    /\ chat.pc = "requesting"
    /\ chat' =
         IF chat.rerun = ""
         THEN [chat EXCEPT
                 !.messages =
                     Append(@, Message("assistant", ServerResponse(how))),
                 !.pc = "waiting",
                 !.input = ""]
         ELSE [chat EXCEPT
                 !.messages = IF chat.rerun = "clear" THEN <<>> ELSE @,
                 !.pc = "waiting",
                 !.input = "",
                 !.rerun = ""]
    /\ UNCHANGED othersOfChat
    /\ UNCHANGED <<reqVars, embVars, poolVars, fetchVars, lazyVars,
                   loaderVars>>

\* cb.py:312-314: the clear button on the waiting page
ChatClear ==
    /\ chat.pc = "waiting"
    /\ chat' = [chat EXCEPT !.messages = <<>>]
    /\ UNCHANGED othersOfChat
    /\ UNCHANGED <<reqVars, embVars, poolVars, fetchVars, lazyVars,
                   loaderVars>>

NextChat ==
    \/ \E user_input \in UserInputs : ChatSubmit(user_input)
    \/ \E widget \in Widgets : ChatInteract(widget)
    \/ \E how \in RequestOutcomes : ChatReply(how)
    \/ ChatClear

SpecChat == InitEmbed /\ [][NextChat]_vars

---------------------------------------------------------------------------
(* Properties of handle_query *)

\* the stage ran for the request being handled
Ran(stage) == \E i \in DOMAIN calls : calls[i] = stage

\* the request being handled carries a query that is empty after trimming
QueryIsBlank == Strip(payload.query) = <<>>

Finished == pc = "done"

IsNoMatchResponse(r) ==
    /\ r.answer.by = "handle_query"
    /\ r.answer.text \in {"No results found", "la tujad nataij"}
    /\ r.sources = <<>>
    /\ r.confidence = Num(0)

IsNoAlertsResponse(r) ==
    /\ r.answer.by = "handle_query"
    /\ r.answer.text \in {"No current alerts", "la tujad tanbihat haliya"}
    /\ Len(r.sources) = 1
    /\ r.confidence = r.sources[1].score

IsGeneratedResponse(r) ==
    /\ r.answer.by \in {"gpt-4", "generate_answer"}
    /\ Len(r.sources) = 1
    /\ r.confidence = r.sources[1].score

\* the source entry that describes a match
DescribesMatch(source, match) ==
    /\ source.type = match.type
    /\ source.id = match.id
    /\ source.name_ar = match.name_ar
    /\ source.name_en = match.name_en
    /\ source.score = Round2(match.score)

\* C1: every finished request whose query is non-empty after trimming has
\* a response with a confidence between 0 and 1 inclusive and at most one
\* source, whatever k and score_threshold are.
C1_ConfidenceInUnitInterval ==
    (Finished /\ ~QueryIsBlank) =>
        /\ response.status = 200
        /\ ~response.confidence.nan
        /\ response.confidence.milli >= 0
        /\ response.confidence.milli <= 1000
        /\ Len(response.sources) <= 1

C3_BlankQueryRejected ==
    (pc \notin {"idle", "validate"} /\ QueryIsBlank) =>
        /\ Finished
        /\ response = EmptyQueryError
        /\ calls = <<"validate">>
        /\ fetchArgs = <<>>

\* a whitespace-only query was rejected
C3_Witness ==
    /\ Finished
    /\ payload.query = <<Run("S", 3)>>
    /\ payload.k = 2
    /\ response.status = 400

\* C4: when retrieval returns no match, the response is the "no results"
\* text in the detected language with no source and confidence 0.0, and
\* neither aggregation nor answer generation ran.
C4_NoMatchShortCircuits ==
    (Finished /\ Ran("retrieve") /\ locations = <<>>) =>
        /\ response.status = 200
        /\ response.answer.text =
              (IF lang = "ar" THEN "la tujad nataij" ELSE "No results found")
        /\ response.sources = <<>>
        /\ response.confidence = Num(0)
        /\ ~Ran("aggregate")
        /\ ~Ran("generate")
        /\ fetchArgs = <<>>

\* the store answered and holds rows, none of which reaches the threshold,
\* and the query was detected as Arabic
C4_Witness ==
    /\ Finished
    /\ Ran("retrieve")
    /\ faults = {}
    /\ payload.k > 0
    /\ DOMAIN store.regions # {}
    /\ DOMAIN store.govs # {}
    /\ locations = <<>>
    /\ lang = "ar"
    /\ response.status = 200

\* C5: when retrieval returns at least one match and aggregation returns no
\* alert record for the top-ranked one, the response is the "no current
\* alerts" text in the detected language, its only source is the top-ranked
\* match and its confidence is that match's rounded score.
C5_NoAlertsReportsTopMatch ==
    (Finished /\ Ran("aggregate") /\ data = <<>>) =>
        /\ response.status = 200
        /\ response.answer.text =
              (IF lang = "ar" THEN "la tujad tanbihat haliya"
               ELSE "No current alerts")
        /\ Len(response.sources) = 1
        /\ DescribesMatch(response.sources[1], locations[1])
        /\ response.confidence = Round2(locations[1].score)
        /\ ~Ran("generate")

\* two matches were retrieved, the first one has no alert although the
\* store answered, and its score is not a whole number of hundredths
C5_Witness ==
    /\ Finished
    /\ Ran("aggregate")
    /\ faults = {}
    /\ data = <<>>
    /\ Len(locations) = 2
    /\ locations[1].score = Num(866)
    /\ locations[1].id # locations[2].id
    /\ response.confidence = Num(870)

\* C6: on the success path the answer is what generate_answer returned, the
\* only source is the first element of the retrieval result, alert data was
\* fetched for that element only, and the confidence is its score rounded
\* to two decimals.
C6_SuccessUsesTopMatchOnly ==
    (Finished /\ Ran("generate")) =>
        /\ response.status = 200
        /\ \E gptOk \in BOOLEAN :
              response.answer = generate_answer(query, data, lang, gptOk).value
        /\ Len(response.sources) = 1
        /\ DescribesMatch(response.sources[1], locations[1])
        /\ fetchArgs = << <<locations[1].type, locations[1].id>> >>
        /\ response.confidence = Round2(locations[1].score)

\* the generative model answered for the first of two matches of different
\* kinds, whose score is not a whole number of hundredths
C6_Witness ==
    /\ Finished
    /\ Ran("generate")
    /\ faults = {}
    /\ Len(locations) = 2
    /\ locations[1].type # locations[2].type
    /\ locations[1].score = Num(866)
    /\ response.answer.by = "gpt-4"
    /\ response.confidence = Num(870)

\* C7: the sequence find_top_location returned is sorted by score in
\* descending order, holds only entries whose score is >= the threshold,
\* and is no longer than k.
C7_SortedAboveThresholdAtMostK ==
    Ran("retrieve") =>
        /\ \A i \in DOMAIN locations :
              /\ ~locations[i].score.nan
              /\ locations[i].score.milli >= payload.score_threshold
        /\ \A i, j \in DOMAIN locations :
              i < j => locations[i].score.milli >= locations[j].score.milli
        /\ Len(locations) <= payload.k

\* C8: find_top_location is deterministic: for the store content and the
\* arguments of the call about to be made there is one sequence it can
\* return.
C8_RetrievalDeterministic ==
    pc = "retrieve" =>
        \A db \in DbOutcomes :
            Cardinality(find_top_location(store, query_emb, payload.k,
                                          payload.score_threshold, db)) = 1

C17_GenerateAnswerAlwaysAnswers ==
    /\ pc = "generate" =>
          \A gptOk \in BOOLEAN :
              LET r == generate_answer(query, data, lang, gptOk)
              IN  /\ ~r.raised
                  /\ r.value.text # ""
                  /\ ~gptOk => r.value = ErrorAnswer(lang)
    /\ (Finished /\ "gpt" \in faults) =>
          /\ response.status = 200
          /\ response.answer.by = "generate_answer"
          /\ response.answer.text =
                (IF lang = "ar" THEN "hadatha khata fi tawlid ar-radd"
                 ELSE "Error generating response")

\* the generative model failed for an Arabic request with alert records
C17_Witness ==
    /\ Finished
    /\ "gpt" \in faults
    /\ lang = "ar"
    /\ data # <<>>
    /\ response.answer.text = "hadatha khata fi tawlid ar-radd"

\* the stages of handle_query in the order of its statements
StageOrder ==
    <<"validate", "detect", "embed", "retrieve", "aggregate", "generate">>

\* C18: the stages that ran for a request are an initial part of validate,
\* detect, embed, retrieve, aggregate, generate, so each ran at most once
\* and none after a later one; aggregation ran only if retrieval returned a
\* match, generation only if aggregation returned an alert record; and the
\* response is produced once, after the last stage that ran.
C18_StagesRunInOrder ==
    /\ Len(calls) <= Len(StageOrder)
    /\ calls = SubSeq(StageOrder, 1, Len(calls))
    /\ Ran("aggregate") => (Ran("retrieve") /\ locations # <<>>)
    /\ Ran("generate") => (Ran("aggregate") /\ data # <<>>)
    /\ (response # NoResponse) <=> Finished
    /\ Finished => calls # <<>>

\* a request went through all six stages
C18_Witness ==
    /\ Finished
    /\ calls = StageOrder
    /\ response.status = 200

\* C23: a request that is about to call find_top_location, or has called
\* it, has k >= 1, a score_threshold between 0 and 1, and a query that is
\* non-empty after trimming.
C23_QueryInvariantsAtRetrieval ==
    (pc = "retrieve" \/ Ran("retrieve")) =>
        /\ payload.k >= 1
        /\ payload.score_threshold >= 0
        /\ payload.score_threshold <= 1000
        /\ ~QueryIsBlank

---------------------------------------------------------------------------
(* Properties of get_embedding *)

\* C9: a call whose text has the same first 512 characters as the text of
\* an earlier call returns the vector the earlier call returned.
C9_SamePrefixSameVector ==
    \A c \in Callers :
        (epc[c] = "done" /\ ~einfo[c].first) =>
            eresult[c] = embHist[Prefix512(etext[c])].first

\* C9 as amended: once a call has stored its vector, every later call
\* whose text has the same first 512 characters returns that vector from
\* the cache without calling the service (one call at a time).
C9_StoredPrefixServesSameVector ==
    \A c \in Callers :
        (epc[c] = "done" /\ embHist[Prefix512(etext[c])].stored
                         /\ ~einfo[c].stored) =>
            /\ eresult[c] = embHist[Prefix512(etext[c])].firstStored
            /\ einfo[c].hit
            /\ ~einfo[c].called

\* a call was served the vector of another text that shares its first 512
\* characters and differs beyond them
C9_Witness ==
    /\ epc[1] = "done"
    /\ etext[1] = <<Run("L", 512), Run("A", 1)>>
    /\ einfo[1].hit
    /\ eresult[1] = EmbeddingService(<<Run("L", 513)>>)
    /\ eresult[1] # EmbeddingService(EmbedInput(etext[1]))

\* C10: under every interleaving all writes to one cache key store the same
\* value: what the cache holds for a prefix is what was first stored for it.
C10_WritesToAKeyAgree ==
    \A p \in Prefixes :
        (embHist[p].stored /\ p \in DOMAIN EMBED_CACHE) =>
            EMBED_CACHE[p] = embHist[p].firstStored

\* C11: a call whose request to the embedding service fails ends by
\* returning the zero vector (no exception leaves it) and leaves the cache as
\* it was; the failure is not stored, so the next call with the same text
\* calls the service again.
C11_FailureReturnsZeroAndStoresNothing ==
    [][\A c \in Callers :
          (epc[c] = "calling" /\ epc'[c] = "done" /\ ~einfo'[c].stored) =>
              /\ eresult'[c] = ZeroVector
              /\ EMBED_CACHE' = EMBED_CACHE
              /\ LET again == get_embedding(EMBED_CACHE', etext[c], TRUE)
                 IN  /\ ~again.raised
                     /\ again.called
                     /\ ~again.hit]_vars

\* the service failed for a text while the cache holds other texts, and
\* the caller got the zero vector
C11_Witness ==
    /\ epc[1] = "done"
    /\ etext[1] = <<Run("L", 5)>>
    /\ einfo[1].called
    /\ ~einfo[1].stored
    /\ eresult[1] = ZeroVector
    /\ EMBED_CACHE # <<>>
    /\ CacheKey(etext[1]) \notin DOMAIN EMBED_CACHE

\* a call that ended at once (a cache hit or an empty text) for a text that
\* is empty after trimming
BlankCallEnds(c) ==
    /\ epc[c] = "idle"
    /\ epc'[c] = "done"
    /\ Strip(etext'[c]) = <<>>

\* C12: every call with a text that is empty after trimming returns the
\* zero vector, does not call the embedding service and adds nothing to the
\* cache, whatever the cache holds.
C12_BlankTextGivesZeroVector ==
    [][\A c \in Callers :
          BlankCallEnds(c) =>
              /\ eresult'[c] = ZeroVector
              /\ ~einfo'[c].called
              /\ EMBED_CACHE' = EMBED_CACHE]_vars

\* C12 as amended: a call with a text that is empty after trimming never
\* calls the service and adds nothing to the cache; it returns the zero
\* vector unless the first 512 characters of the text are a key of the
\* cache, which they never are for a text shorter than 512 characters.
C12_BlankTextOffCacheGivesZeroVector ==
    [][\A c \in Callers :
          BlankCallEnds(c) =>
              /\ ~einfo'[c].called
              /\ EMBED_CACHE' = EMBED_CACHE
              /\ CacheKey(etext'[c]) \notin DOMAIN EMBED_CACHE =>
                    eresult'[c] = ZeroVector
              /\ TextLen(etext'[c]) < 512 =>
                    CacheKey(etext'[c]) \notin DOMAIN EMBED_CACHE]_vars

\* a text of 512 spaces got the zero vector while the cache held the
\* vectors of other texts
C12_Witness ==
    /\ epc[1] = "done"
    /\ etext[1] = <<Run("S", 512)>>
    /\ ~einfo[1].hit
    /\ ~einfo[1].called
    /\ eresult[1] = ZeroVector
    /\ EMBED_CACHE # <<>>

---------------------------------------------------------------------------
(* Properties of the connection pool *)

\* no call of a store operation is in progress
NoCallInProgress == \A op \in StoreOps : holders[op] = 0

\* the connections held by calls in progress
HeldByCalls ==
    holders["find_top_location"] + holders["fetch_location_data"]
        + holders["health_check"]

\* C13: every connection a call of find_top_location, fetch_location_data
\* or health_check acquired is back in the pool when the call has ended:
\* the connections that are out are those of the calls in progress, so none
\* is out when no call is in progress.
C13_EveryConnectionReleased ==
    /\ used = HeldByCalls
    /\ NoCallInProgress => used = 0

\* C14: a call that asks for a connection while all of them are checked out
\* by calls in progress does not fail: no call ends with an empty or error
\* result because the pool was exhausted.
C14_ExhaustedPoolBlocks ==
    outcome.cause # "exhausted"

---------------------------------------------------------------------------
(* Properties of detect_language *)

\* the share of Arabic-block characters of t is at least 15%
ArabicShareReached(t) == 100 * CountClass(t, "A") >= 15 * TextLen(t)

\* C19: detect_language returns "ar" or "en" and raises nothing for every
\* text, the empty one included, whatever the statistical detector does,
\* a failure included; a text that is empty or whitespace-only gives "en".
C19_DetectLanguageTotal ==
    det.pc = "returned" =>
        /\ ~det.raised
        /\ det.result \in {"ar", "en"}
        /\ Strip(det.text) = <<>> => det.result = "en"

\* the detector failed on a text with few Arabic characters
C19_Witness ==
    /\ det.pc = "returned"
    /\ det.detector = "raises"
    /\ det.text = <<Run("A", 1), Run("L", 17)>>
    /\ det.result = "en"

\* C20: when the detector fails on a non-empty text, the result is "ar"
\* exactly if the Arabic-block characters are at least 15% of the
\* characters of the text passed in.
C20_HeuristicOnTextAsPassed ==
    (det.pc = "returned" /\ det.detector = "raises" /\ det.text # <<>>) =>
        (det.result = "ar" <=> ArabicShareReached(det.text))

\* C20 as amended: when the detector fails on a text that is non-empty
\* after trimming, the result is "ar" exactly if the Arabic-block
\* characters are at least 15% of the characters of the trimmed text with
\* each whitespace run replaced by one space.
C20_HeuristicOnNormalisedText ==
    (det.pc = "returned" /\ det.detector = "raises"
                         /\ Strip(det.text) # <<>>) =>
        (det.result = "ar"
            <=> ArabicShareReached(CollapseSpaces(Strip(det.text))))

\* the detector failed on a text whose Arabic share is exactly 15%
C20_Witness ==
    /\ det.pc = "returned"
    /\ det.detector = "raises"
    /\ det.text = <<Run("A", 3), Run("L", 17)>>
    /\ det.result = "ar"

---------------------------------------------------------------------------
(* Properties of fetch_location_data *)

\* the store answered the call that returned
FetchAnswered == fetched.pc = "returned" /\ fetched.db = "ok"

\* the alerts linked to the entity of the call: to the governorate, or to
\* at least one governorate of the region
LinkedAlerts ==
    IF fetched.type = "region"
    THEN {a \in FetchAlertIds :
            \E g \in GovIds : /\ store.region_of[g] = fetched.id
                               /\ <<a, g>> \in store.links}
    ELSE {a \in FetchAlertIds : <<a, fetched.id>> \in store.links}

\* C21: what fetch_location_data returns holds each alert at most once and
\* holds exactly the alerts linked to the entity, whether or not an alert
\* has a hazard.
C21_ExactlyTheLinkedAlerts ==
    FetchAnswered =>
        /\ \A i, j \in DOMAIN fetched.rows :
              i # j => fetched.rows[i].alert_id # fetched.rows[j].alert_id
        /\ {fetched.rows[i].alert_id : i \in DOMAIN fetched.rows}
              = LinkedAlerts

\* a region was asked for; one alert is linked to two of its governorates
\* and has no hazard; the other alert, which has a hazard, is not linked to
\* the region
C21_Witness ==
    /\ FetchAnswered
    /\ fetched.type = "region"
    /\ fetched.id = 1
    /\ store.region_of = [g \in GovIds |-> IF g <= 2 THEN 1 ELSE 2]
    /\ {<<1, 1>>, <<1, 2>>} \subseteq store.links
    /\ store.hazards = {<<2, 1>>}
    /\ Len(fetched.rows) = 1
    /\ fetched.rows[1].alert_id = 1
    /\ fetched.rows[1].hazards = {Null}

\* C22: in every record returned, the governorate names are those of all
\* governorates linked to the alert and the hazards are all hazard
\* descriptions linked to the alert.
C22_AllAffectedGovernorates ==
    FetchAnswered =>
        \A i \in DOMAIN fetched.rows :
            LET a == fetched.rows[i].alert_id
            IN  /\ fetched.rows[i].gov_names
                      = {g \in GovIds : <<a, g>> \in store.links}
                /\ fetched.rows[i].hazards \ {Null}
                      = {h \in HazardIds : <<a, h>> \in store.hazards}

---------------------------------------------------------------------------
(* The cache over sequential calls *)

\* C27: a get_embedding call asks the embedding service at most once, and
\* not at all when the cache holds its key; a hit leaves the cache as it
\* was, and no entry is removed or replaced by a later sequential call.
C27_OneServiceCallAndStableCache ==
    [][ /\ epc[1] = "calling" => epc'[1] = "done"
        /\ (epc[1] = "idle" /\ epc'[1] # "idle"
              /\ CacheKey(etext'[1]) \in DOMAIN EMBED_CACHE) =>
              /\ epc'[1] = "done"
              /\ einfo'[1].hit
              /\ ~einfo'[1].called
              /\ eresult'[1] = EMBED_CACHE[CacheKey(etext'[1])]
              /\ EMBED_CACHE' = EMBED_CACHE
        /\ \A k \in DOMAIN EMBED_CACHE :
              /\ k \in DOMAIN EMBED_CACHE'
              /\ EMBED_CACHE'[k] = EMBED_CACHE[k]
        /\ EMBED_CACHE' # EMBED_CACHE =>
              /\ epc[1] = "calling"
              /\ einfo'[1].called
      ]_vars

\* a call was served from a cache that holds two entries, without the
\* service
C27_Witness ==
    /\ epc[1] = "done"
    /\ einfo[1].hit
    /\ ~einfo[1].called
    /\ Cardinality(DOMAIN EMBED_CACHE) >= 2
    /\ eresult[1] = EMBED_CACHE[CacheKey(etext[1])]

---------------------------------------------------------------------------
(* Properties of the loader *)

\* C25: every critical error of a load cycle, in the download or in the
\* processing, is followed by the 60-second wait of main_loop (from where
\* the next download starts); the loop never ends because of the error.
C25_ErrorsLeadToRetry ==
    loader.error # "" =>
        \/ loader.pc = "finally"
        \/ loader.pc = "sleep" /\ loader.wait = 60

\* the waits of a call that has failed n times
WaitsAfter(n) == SubSeq(<<1, 2>>, 1, n)

\* C26: the loader's get_embedding asks the service at most 3 times per
\* text; it returns the vector of the first attempt that succeeds, waits
\* 1 s then 2 s between failed attempts, raises after the third failure
\* and never returns the zero vector for a text that is not blank; a text
\* that is blank after trimming gets the zero vector with no service call.
C26_LoaderEmbeddingRetries ==
    LET e == loader.emb
        t == Strip(e.text)
    IN  /\ e.asked <= 3
        /\ e.state = "running" =>
              /\ t # <<>>
              /\ e.asked = e.attempt
              /\ e.asked < 3
              /\ e.waits = WaitsAfter(e.asked)
        /\ e.state = "returned" /\ t # <<>> =>
              /\ e.asked >= 1
              /\ e.waits = WaitsAfter(e.asked - 1)
              /\ e.result = EmbeddingService(t)
              /\ e.result # ZeroVector
        /\ e.state = "raised" =>
              /\ t # <<>>
              /\ e.asked = 3
              /\ e.waits = <<1, 2>>
        /\ e.state # "none" /\ t = <<>> =>
              /\ e.state = "returned"
              /\ e.result = ZeroVector
              /\ e.asked = 0

\* a text that is not blank failed three times and the call raised
C26_Witness ==
    /\ loader.pc = "start"
    /\ loader.emb.state = "raised"
    /\ loader.emb.asked = 3
    /\ loader.emb.waits = <<1, 2>>

\* C28: process_data is all-or-nothing.  The tables change only in the
\* commit, which takes every batch of the cycle; a failure in the read,
\* an embedding or an upsert is rolled back and re-raised to main_loop,
\* and the connection is closed on every way out.
C28_AllOrNothing ==
    [][ /\ loader'.db # loader.db =>
              /\ loader.pc = "commit"
              /\ loader'.db = Merged(loader.db, AllRows(loader.work))
        /\ loader.pc = "except" =>
              /\ loader'.txn = NoRows
              /\ loader'.db = loader.db
              /\ loader'.error = "Exception"
              /\ loader'.pc = "finally"
        /\ loader.pc = "finally" /\ loader.error # "" =>
              /\ loader'.pc = "sleep"
              /\ loader'.wait = 60
        /\ (loader.pc \in {"read", "features", "embedding", "upsert",
                           "commit"}
              /\ loader'.pc \notin {"read", "features", "embedding",
                                    "upsert", "commit", "finally"}) =>
              loader'.pc = "except"
        /\ loader'.pc \in {"sleep", "start", "exited"} =>
              loader'.conn # "open"
      ]_vars

\* an upsert failed after another had been done: the tables are as they
\* were, the connection is closed and main_loop waits a minute
C28_Witness ==
    /\ loader.pc = "sleep"
    /\ loader.wait = 60
    /\ loader.conn = "closed"
    /\ loader.work.stage = "upsert"
    /\ loader.work.i > 1
    /\ AllRows(loader.work).regions # {}
    /\ loader.txn = NoRows
    /\ loader.db = NoRows

\* the feature mentions the id
Mentions(f, kind, id) ==
    CASE kind = "region" -> f.region = id
      [] kind = "governorate" -> f.gov = id
      [] kind = "alert" -> f.alert = id
      [] kind = "hazard" -> f.hazard = id

\* every id is at most once in its batch, with the first feature that
\* mentions it
OneRowPerId ==
    \A kind \in LoaderKinds :
        LET b == loader.work.batch[kind]
        IN  \A j \in DOMAIN b :
                /\ \A n \in DOMAIN b : n # j => b[n].id # b[j].id
                /\ Mentions(loader.file[b[j].from], kind, b[j].id)
                /\ \A m \in 1..(b[j].from - 1) :
                       ~Mentions(loader.file[m], kind, b[j].id)

\* C30 as stated: one row per id, and the embedding service is asked at
\* most once for each region, governorate and hazard id.
C30_OneServiceRequestPerId ==
    /\ OneRowPerId
    /\ \A key \in EmbKeys : loader.work.calls[key] <= 1
    /\ loader.pc = "embedding" => loader.emb.asked <= 1

\* C30: one row per id, and get_embedding is called at most once for
\* each region, governorate and hazard id; with its retries the call
\* asks the service at most max_retries times.
C30_OneGetEmbeddingPerId ==
    /\ OneRowPerId
    /\ \A key \in EmbKeys : loader.work.calls[key] <= 1
    /\ loader.pc = "embedding" => loader.emb.asked <= max_retries

\* two features with the same region, governorate, alert and hazard went
\* through the loop: each batch has one row, from the first feature
C30_Witness ==
    /\ loader.pc = "upsert"
    /\ Len(loader.file) = 2
    /\ loader.file[1] = loader.file[2]
    /\ loader.file[1].hazard = 1
    /\ \A kind \in LoaderKinds :
          /\ Len(loader.work.batch[kind]) = 1
          /\ loader.work.batch[kind][1].from = 1
    /\ Len(loader.work.alert_hazard_batch) = 2

---------------------------------------------------------------------------
(* Properties of the lazy pool initialisation *)

\* C29: with concurrent first requests, get_db_connection creates at most
\* one connection pool, and every connection is released to the pool it
\* was taken from.
C29_OnePoolOnly ==
    /\ made <= 1
    /\ \A t \in Threads :
          /\ tend[t] # "PoolError"
          /\ tpc[t] = "query" => tconn[t] = poolNow

---------------------------------------------------------------------------
(* Properties of the chat UI *)

\* C31: every call of handle_user_input appends one user message and then
\* one assistant message, also when the request fails; so the history
\* alternates user, assistant, and a page that waits for the user shows
\* whole pairs only.
C31_HistoryAlternates ==
    /\ \A i \in DOMAIN chat.messages :
          chat.messages[i].role =
              IF i % 2 = 1 THEN "user" ELSE "assistant"
    /\ chat.pc = "waiting" => Len(chat.messages) % 2 = 0

=============================================================================
